---- MODULE Spec2Model ----
(***************************************************************************)
(* The chat server of server.js (Express + Socket.IO, in-memory state),    *)
(* the credential lookup of src/services/authService.ts, the socket        *)
(* handlers of src/components/ChatRoom.tsx, the message functions of       *)
(* src/services/chatService.ts and the VideoCallModal component.           *)
(*                                                                         *)
(* Every socket handler and HTTP endpoint is one action that runs to       *)
(* completion (Node's event loop).  `call` records the handler that ran    *)
(* last and its arguments, `emitted` the events it emitted in order, each  *)
(* with the set of sockets it is delivered to, and `reply` the HTTP        *)
(* response (socket handlers take no acknowledgement callback, so they     *)
(* leave NoReply).                                                         *)
(***************************************************************************)
EXTENDS Integers, Sequences, FiniteSets, TLC

VARIABLES messages, connectedUsers, userStatus, typingUsers, readReceipts,
          sockets, now, nsent, call, emitted, reply,
          socketRef, inbox, chatRoom, firestore, pending, videoCall

vars == <<messages, connectedUsers, userStatus, typingUsers, readReceipts,
          sockets, now, nsent, call, emitted, reply,
          socketRef, inbox, chatRoom, firestore, pending, videoCall>>

(***************************************************************************)
(* Bounds of the model.                                                    *)
(***************************************************************************)
\* getUserMedia is called at most MaxCalls times in a behaviour.
MaxCalls == 2
\* send_message is handled at most MaxSends times in a behaviour.
MaxSends == 2
\* Tick moves the clock one millisecond at a time up to MaxNow.
MaxNow == 1
\* The server handles a further event while at most MaxInbox events wait
\* to be handled by the browser.
MaxInbox == 1

(***************************************************************************)
(* Program constants.                                                      *)
(***************************************************************************)
\* server.js:150  if (messages.length > 100) messages = messages.slice(-100)
MaxMessages == 100
\* server.js:230  if (now - timestamp > 3000)
TypingTimeout == 3000

(***************************************************************************)
(* JavaScript values.                                                      *)
(***************************************************************************)
\* undefined and null, as strings no input string equals.
UNDEF == "<undefined>"
NULL == "<null>"
\* editedAt: null, among timestamps (milliseconds).
NoTime == -1000000
\* A string-valued x is falsy when it is undefined, null or "".
Falsy(x) == x \in {UNDEF, NULL, ""}
\* x || d
OrElse(x, d) == IF Falsy(x) THEN d ELSE x

Min(a, b) == IF a < b THEN a ELSE b

\* Array.prototype.slice(-n): the last n elements (all of them when fewer).
SliceLast(s, n) == SubSeq(s, Len(s) - Min(Len(s), n) + 1, Len(s))

\* Array.prototype.findIndex with the test msg.id === id: the first index
\* that passes, 0 for JavaScript's -1.
FindIndex(s, id) ==
    IF \E i \in 1..Len(s) : s[i].id = id
    THEN CHOOSE i \in 1..Len(s) :
            /\ s[i].id = id
            /\ \A j \in 1..(i - 1) : s[j].id # id
    ELSE 0

\* Array.prototype.splice(i, 1)
Splice1(s, i) == SubSeq(s, 1, i - 1) \o SubSeq(s, i + 1, Len(s))

(***************************************************************************)
(* A Map is a sequence of <<key, value>> entries in insertion order, as    *)
(* JavaScript iterates it: set() of a new key appends, set() of a present  *)
(* key keeps its place, delete() closes the gap.                           *)
(***************************************************************************)
MapKeys(m) == {m[i][1] : i \in 1..Len(m)}
MapHas(m, k) == k \in MapKeys(m)
MapIndex(m, k) == CHOOSE i \in 1..Len(m) : m[i][1] = k
MapGet(m, k) == m[MapIndex(m, k)][2]
MapSet(m, k, v) ==
    IF MapHas(m, k)
    THEN [m EXCEPT ![MapIndex(m, k)] = <<k, v>>]
    ELSE Append(m, <<k, v>>)
MapDelete(m, k) ==
    IF MapHas(m, k) THEN Splice1(m, MapIndex(m, k)) ELSE m

(***************************************************************************)
(* Inputs.                                                                 *)
(***************************************************************************)
\* socket.id of the connections the server may see.
Sockets == {"s1", "s2"}
\* Usernames clients put in their events (the two accounts).
Names == {"lev", "cin"}
Contents == {"hi", "yo"}
\* The data of a send_message: a text message that leaves type and
\* attachment out, and an uploaded file (its descriptor stood for by its
\* file name).
SendData == { [username |-> "lev", content |-> "hi", type |-> UNDEF,
               attachment |-> UNDEF],
              [username |-> "cin", content |-> "yo", type |-> "attachment",
               attachment |-> "file-1.png"] }
\* Math.random() is kept to these fractions of a millisecond, and an id is
\* counted in units of 1/IdScale ms.
RandomFractions == {0, 1}
IdScale == Cardinality(RandomFractions)
\* A messageId no message of the run has.
AbsentId == -1
\* The messageId of an edit_message or delete_message: the id of a message
\* sent since the clock's 0, or an absent one.
TargetIds ==
    {messages[i].id : i \in {j \in 1..Len(messages) :
                                messages[j].timestamp >= 0}}
      \cup {AbsentId}
EditData == [messageId : TargetIds, username : Names, newContent : Contents]
DeleteData == [messageId : TargetIds, username : Names]
ReadData == [messageId : TargetIds, username : Names]

NoReply == [status |-> 0]
NoData == [none |-> TRUE]

\* An emitted event and the sockets it is delivered to.
Ev(name, payload, to) == [event |-> name, payload |-> payload, to |-> to]
\* Mutant of ToAll: only the sockets that have joined.
ToAllJoined == MapKeys(connectedUsers)
\* io.emit: every connected socket.
ToAll == sockets
\* Mutant of ToOthers: io.emit in the place of socket.broadcast.emit.
ToOthersAndSelf(s) == sockets
\* socket.broadcast.emit: every connected socket but this one.
ToOthers(s) == sockets \ {s}
\* Mutant of ToSelf: io.emit in the place of socket.emit.
ToEveryone(s) == sockets
\* socket.emit: this socket.
ToSelf(s) == {s}

(***************************************************************************)
(* One browser running the ChatRoom component (src/components/ChatRoom.tsx)*)
(* is followed: socketRef is the id of the socket it is connected through, *)
(* inbox the events delivered to that socket and not yet handled, in the   *)
(* order they were emitted, and chatRoom the component's state.            *)
(***************************************************************************)
\* socketRef while the browser has no connection.
NoSocket == "none"

\* useState initial values (ChatRoom.tsx:46-57).
ChatRoomInit ==
    [ messages |-> <<>>,
      isConnected |-> FALSE,
      onlineUsers |-> <<>>,
      typingUsers |-> <<>>,
      readReceipts |-> <<>> ]

(***************************************************************************)
(* The VideoCallModal that ChatRoom keeps mounted for outgoing calls       *)
(* (isIncoming false): videoCall holds its isOpen prop, its localStream    *)
(* and callStatus state, the localStream that the cleanup of its effect    *)
(* closed over (`captured`), the getUserMedia calls under way              *)
(* (`requested`), the streams obtained so far (`granted`, a stream being   *)
(* known by its number and null being NoStream) and the streams whose      *)
(* tracks have not been stopped (`live`).                                  *)
(***************************************************************************)
NoStream == 0

\* After the first render: the modal is closed, so the effect started
\* nothing, and its cleanup closed over the null localStream.
VideoCallInit ==
    [ isOpen |-> FALSE,
      localStream |-> NoStream,
      callStatus |-> "connecting",
      captured |-> NoStream,
      requested |-> 0,
      granted |-> 0,
      live |-> {} ]

ReachesBrowser(e) == socketRef \in e.to

\* What a handler of the server does outside the server: the events it
\* emitted to the browser's socket are queued for the browser.
Delivered ==
    /\ inbox' = inbox \o SelectSeq(emitted', ReachesBrowser)
    /\ UNCHANGED <<socketRef, chatRoom, videoCall>>

(***************************************************************************)
(* The Firestore collection 'messages' of src/services/chatService.ts:     *)
(* firestore maps a document id to the document, pending a caller to the   *)
(* asynchronous call it has under way.                                     *)
(***************************************************************************)
\* A document that does not exist.
NoDoc == [exists |-> FALSE]
\* A caller with no call under way.
Idle == [op |-> "idle"]
DocIds == {"m1", "m2"}
Callers == {"c1", "c2"}

FirestoreUnchanged == UNCHANGED <<firestore, pending>>

(***************************************************************************)
(* The state after construction (server.js:56-66).                         *)
(***************************************************************************)
Init ==
    /\ messages = <<>>
    /\ connectedUsers = <<>>
    /\ userStatus = <<>>
    /\ typingUsers = <<>>
    /\ readReceipts = <<>>
    /\ sockets = {}
    /\ now = 0
    /\ nsent = 0
    /\ call = [op |-> "init", socket |-> "", data |-> NoData]
    /\ emitted = <<>>
    /\ reply = NoReply
    /\ socketRef = NoSocket
    /\ inbox = <<>>
    /\ chatRoom = ChatRoomInit
    /\ firestore = [d \in DocIds |-> NoDoc]
    /\ pending = [c \in Callers |-> Idle]
    /\ videoCall = VideoCallInit

\* One millisecond passes.
Tick ==
    /\ now < MaxNow
    /\ now' = now + 1
    /\ call' = [op |-> "tick", socket |-> "", data |-> NoData]
    /\ emitted' = <<>>
    /\ reply' = NoReply
    /\ UNCHANGED <<messages, connectedUsers, userStatus, typingUsers,
                   readReceipts, sockets, nsent>>
    /\ Delivered
    /\ FirestoreUnchanged

\* io.on('connection'): the handlers are registered, nothing else happens.
Connect(s) ==
    /\ s \notin sockets
    /\ sockets' = sockets \cup {s}
    /\ call' = [op |-> "connection", socket |-> s, data |-> NoData]
    /\ emitted' = <<>>
    /\ reply' = NoReply
    /\ UNCHANGED <<messages, connectedUsers, userStatus, typingUsers,
                   readReceipts, now, nsent>>
    /\ Delivered
    /\ FirestoreUnchanged

\* Date.now() + Math.random(), in units of 1/IdScale ms, r the random
\* fraction.
NewId(r) == now * IdScale + r

\* Mutant of NewMessage: the type is taken as given, without `|| 'text'`.
NewMessageNoDefault(data, r) ==
    [ id |-> NewId(r),
      username |-> data.username,
      content |-> data.content,
      type |-> data.type,
      attachment |-> OrElse(data.attachment, NULL),
      timestamp |-> now,
      edited |-> FALSE,
      editedAt |-> NoTime ]

\* The message object send_message builds (server.js:137-146).
NewMessage(data, r) ==
    [ id |-> NewId(r),
      username |-> data.username,
      content |-> data.content,
      type |-> OrElse(data.type, "text"),
      attachment |-> OrElse(data.attachment, NULL),
      timestamp |-> now,
      edited |-> FALSE,
      editedAt |-> NoTime ]

\* Mutant of PushTrim: unshift in the place of push.
PushTrimPrepends(s, m) ==
    LET pushed == <<m>> \o s
    IN  IF Len(pushed) > MaxMessages THEN SliceLast(pushed, MaxMessages)
        ELSE pushed

\* Mutant of PushTrim: slice(0, 100), which keeps the oldest 100.
PushTrimKeepFirst(s, m) ==
    LET pushed == Append(s, m)
    IN  IF Len(pushed) > MaxMessages THEN SubSeq(pushed, 1, MaxMessages)
        ELSE pushed

\* messages.push(message); if (messages.length > 100) messages.slice(-100)
PushTrim(s, m) ==
    LET pushed == Append(s, m)
    IN  IF Len(pushed) > MaxMessages THEN SliceLast(pushed, MaxMessages)
        ELSE pushed

\* socket.on('send_message')
SendMessage(s, data, r) ==
    /\ s \in sockets
    /\ nsent < MaxSends
    /\ nsent' = nsent + 1
    /\ LET message == NewMessage(data, r)
       IN  /\ messages' = PushTrim(messages, message)
           /\ typingUsers' = MapDelete(typingUsers, data.username)
           /\ emitted' = << Ev("user_stopped_typing", data.username, ToAll),
                            Ev("new_message", message, ToAll) >>
    /\ call' = [op |-> "send_message", socket |-> s, data |-> data]
    /\ reply' = NoReply
    /\ UNCHANGED <<connectedUsers, userStatus, readReceipts, sockets, now>>
    /\ Delivered
    /\ FirestoreUnchanged

\* Mutant of Owned: the author is not compared.
OwnedByAnyone(s, id, username) == FindIndex(s, id) # 0

\* The test both edit_message and delete_message make (server.js:165, 181).
Owned(s, id, username) ==
    /\ FindIndex(s, id) # 0
    /\ s[FindIndex(s, id)].username = username

\* Mutant of EditMessage: the edit also writes the timestamp.
EditMessageRestamps(s, data) ==
    /\ s \in sockets
    /\ LET i == FindIndex(messages, data.messageId)
       IN  IF Owned(messages, data.messageId, data.username)
           THEN /\ messages' = [messages EXCEPT
                                  ![i].content = data.newContent,
                                  ![i].edited = TRUE,
                                  ![i].editedAt = now,
                                  ![i].timestamp = now]
                /\ emitted' = << Ev("message_edited",
                                    [messageId |-> data.messageId,
                                     newContent |-> data.newContent,
                                     editedAt |-> now], ToAll) >>
           ELSE /\ messages' = messages
                /\ emitted' = <<>>
    /\ call' = [op |-> "edit_message", socket |-> s, data |-> data]
    /\ reply' = NoReply
    /\ UNCHANGED <<connectedUsers, userStatus, typingUsers, readReceipts,
                   sockets, now, nsent>>
    /\ Delivered
    /\ FirestoreUnchanged

\* Mutant of EditMessage: editedAt is written only when the message was not
\* edited before.
EditMessageKeepsEditedAt(s, data) ==
    /\ s \in sockets
    /\ LET i == FindIndex(messages, data.messageId)
       IN  IF Owned(messages, data.messageId, data.username)
           THEN LET at == IF messages[i].edited THEN messages[i].editedAt
                          ELSE now
                IN  /\ messages' = [messages EXCEPT
                                      ![i].content = data.newContent,
                                      ![i].edited = TRUE,
                                      ![i].editedAt = at]
                    /\ emitted' = << Ev("message_edited",
                                        [messageId |-> data.messageId,
                                         newContent |-> data.newContent,
                                         editedAt |-> at], ToAll) >>
           ELSE /\ messages' = messages
                /\ emitted' = <<>>
    /\ call' = [op |-> "edit_message", socket |-> s, data |-> data]
    /\ reply' = NoReply
    /\ UNCHANGED <<connectedUsers, userStatus, typingUsers, readReceipts,
                   sockets, now, nsent>>
    /\ Delivered
    /\ FirestoreUnchanged

\* socket.on('edit_message')
EditMessage(s, data) ==
    /\ s \in sockets
    /\ LET i == FindIndex(messages, data.messageId)
       IN  IF Owned(messages, data.messageId, data.username)
           THEN /\ messages' = [messages EXCEPT
                                  ![i].content = data.newContent,
                                  ![i].edited = TRUE,
                                  ![i].editedAt = now]
                /\ emitted' = << Ev("message_edited",
                                    [messageId |-> data.messageId,
                                     newContent |-> data.newContent,
                                     editedAt |-> now], ToAll) >>
           ELSE /\ messages' = messages
                /\ emitted' = <<>>
    /\ call' = [op |-> "edit_message", socket |-> s, data |-> data]
    /\ reply' = NoReply
    /\ UNCHANGED <<connectedUsers, userStatus, typingUsers, readReceipts,
                   sockets, now, nsent>>
    /\ Delivered
    /\ FirestoreUnchanged

\* Mutant of DeleteMessage: message_deleted is emitted after the if, so also
\* when nothing was removed.
DeleteMessageEmitsAlways(s, data) ==
    /\ s \in sockets
    /\ LET i == FindIndex(messages, data.messageId)
       IN  IF Owned(messages, data.messageId, data.username)
           THEN messages' = Splice1(messages, i)
           ELSE messages' = messages
    /\ emitted' = << Ev("message_deleted", data.messageId, ToAll) >>
    /\ call' = [op |-> "delete_message", socket |-> s, data |-> data]
    /\ reply' = NoReply
    /\ UNCHANGED <<connectedUsers, userStatus, typingUsers, readReceipts,
                   sockets, now, nsent>>
    /\ Delivered
    /\ FirestoreUnchanged

\* socket.on('delete_message')
DeleteMessage(s, data) ==
    /\ s \in sockets
    /\ LET i == FindIndex(messages, data.messageId)
       IN  IF Owned(messages, data.messageId, data.username)
           THEN /\ messages' = Splice1(messages, i)
                /\ emitted' = << Ev("message_deleted", data.messageId, ToAll) >>
           ELSE /\ messages' = messages
                /\ emitted' = <<>>
    /\ call' = [op |-> "delete_message", socket |-> s, data |-> data]
    /\ reply' = NoReply
    /\ UNCHANGED <<connectedUsers, userStatus, typingUsers, readReceipts,
                   sockets, now, nsent>>
    /\ Delivered
    /\ FirestoreUnchanged

\* Array.from(userStatus.entries()).filter(([_, status]) => status === 'online')
IsOnline(entry) == entry[2] = "online"
OnlineUsers(status) == SelectSeq(status, IsOnline)

\* socket.on('join')
Join(s, username) ==
    /\ s \in sockets
    /\ connectedUsers' = MapSet(connectedUsers, s, username)
    /\ userStatus' = MapSet(userStatus, username, "online")
    /\ emitted' = << Ev("user_status_update",
                        [username |-> username, status |-> "online"], ToAll),
                     Ev("user_joined", username, ToOthers(s)),
                     Ev("chat_history", messages, ToSelf(s)),
                     Ev("online_users", OnlineUsers(userStatus'), ToSelf(s)) >>
    /\ call' = [op |-> "join", socket |-> s, data |-> [username |-> username]]
    /\ reply' = NoReply
    /\ UNCHANGED <<messages, typingUsers, readReceipts, sockets, now, nsent>>
    /\ Delivered
    /\ FirestoreUnchanged

\* Mutant of Typing: io.emit in the place of socket.broadcast.emit.
TypingToAll(s, username) ==
    /\ s \in sockets
    /\ typingUsers' = MapSet(typingUsers, username, now)
    /\ emitted' = << Ev("user_typing", username, ToAll) >>
    /\ call' = [op |-> "typing", socket |-> s, data |-> [username |-> username]]
    /\ reply' = NoReply
    /\ UNCHANGED <<messages, connectedUsers, userStatus, readReceipts,
                   sockets, now, nsent>>
    /\ Delivered
    /\ FirestoreUnchanged

\* socket.on('typing')
Typing(s, username) ==
    /\ s \in sockets
    /\ typingUsers' = MapSet(typingUsers, username, now)
    /\ emitted' = << Ev("user_typing", username, ToOthers(s)) >>
    /\ call' = [op |-> "typing", socket |-> s, data |-> [username |-> username]]
    /\ reply' = NoReply
    /\ UNCHANGED <<messages, connectedUsers, userStatus, readReceipts,
                   sockets, now, nsent>>
    /\ Delivered
    /\ FirestoreUnchanged

\* socket.on('stop_typing')
StopTyping(s, username) ==
    /\ s \in sockets
    /\ typingUsers' = MapDelete(typingUsers, username)
    /\ emitted' = << Ev("user_stopped_typing", username, ToOthers(s)) >>
    /\ call' = [op |-> "stop_typing", socket |-> s,
                data |-> [username |-> username]]
    /\ reply' = NoReply
    /\ UNCHANGED <<messages, connectedUsers, userStatus, readReceipts,
                   sockets, now, nsent>>
    /\ Delivered
    /\ FirestoreUnchanged

\* Mutant of MarkAsRead: a second mark by the same user takes the user out
\* again.
MarkAsReadToggles(s, data) ==
    /\ s \in sockets
    /\ LET had == IF MapHas(readReceipts, data.messageId)
                  THEN MapGet(readReceipts, data.messageId) ELSE {}
       IN  readReceipts' = MapSet(readReceipts, data.messageId,
                                  IF data.username \in had
                                  THEN had \ {data.username}
                                  ELSE had \cup {data.username})
    /\ emitted' = << Ev("message_read", [messageId |-> data.messageId,
                                         readBy |-> data.username], ToAll) >>
    /\ call' = [op |-> "mark_as_read", socket |-> s, data |-> data]
    /\ reply' = NoReply
    /\ UNCHANGED <<messages, connectedUsers, userStatus, typingUsers,
                   sockets, now, nsent>>
    /\ Delivered
    /\ FirestoreUnchanged

\* Mutant of MarkAsRead: the Set is made anew on every mark.
MarkAsReadReplaces(s, data) ==
    /\ s \in sockets
    /\ readReceipts' = MapSet(readReceipts, data.messageId, {data.username})
    /\ emitted' = << Ev("message_read", [messageId |-> data.messageId,
                                         readBy |-> data.username], ToAll) >>
    /\ call' = [op |-> "mark_as_read", socket |-> s, data |-> data]
    /\ reply' = NoReply
    /\ UNCHANGED <<messages, connectedUsers, userStatus, typingUsers,
                   sockets, now, nsent>>
    /\ Delivered
    /\ FirestoreUnchanged

\* socket.on('mark_as_read')
MarkAsRead(s, data) ==
    /\ s \in sockets
    /\ LET had == IF MapHas(readReceipts, data.messageId)
                  THEN MapGet(readReceipts, data.messageId) ELSE {}
       IN  readReceipts' = MapSet(readReceipts, data.messageId,
                                  had \cup {data.username})
    /\ emitted' = << Ev("message_read", [messageId |-> data.messageId,
                                         readBy |-> data.username], ToAll) >>
    /\ call' = [op |-> "mark_as_read", socket |-> s, data |-> data]
    /\ reply' = NoReply
    /\ UNCHANGED <<messages, connectedUsers, userStatus, typingUsers,
                   sockets, now, nsent>>
    /\ Delivered
    /\ FirestoreUnchanged

\* socket.on('disconnect'): Socket.IO has taken the socket out of the
\* namespace before the handler runs, so nothing it emits reaches it.
Disconnect(s) ==
    /\ s \in sockets
    /\ sockets' = sockets \ {s}
    /\ IF MapHas(connectedUsers, s) /\ ~Falsy(MapGet(connectedUsers, s))
       THEN LET username == MapGet(connectedUsers, s)
            IN  /\ connectedUsers' = MapDelete(connectedUsers, s)
                /\ userStatus' = MapSet(userStatus, username, "offline")
                /\ typingUsers' = MapDelete(typingUsers, username)
                /\ emitted' = << Ev("user_status_update",
                                    [username |-> username,
                                     status |-> "offline"], sockets'),
                                 Ev("user_left", username, sockets'),
                                 Ev("user_stopped_typing", username,
                                    sockets') >>
       ELSE /\ UNCHANGED <<connectedUsers, userStatus, typingUsers>>
            /\ emitted' = <<>>
    /\ call' = [op |-> "disconnect", socket |-> s, data |-> NoData]
    /\ reply' = NoReply
    /\ UNCHANGED <<messages, readReceipts, now, nsent>>
    /\ Delivered
    /\ FirestoreUnchanged

\* Mutant of Expired: >= in the place of >.
ExpiredAtTimeout(entry) == now - entry[2] >= TypingTimeout

\* The test of the sweep: now - timestamp > 3000 (server.js:230)
Expired(entry) == now - entry[2] > TypingTimeout
Fresh(entry) == ~Expired(entry)

\* Mutant of Sweep: the expired entries are announced and not deleted.
SweepKeeps ==
    /\ typingUsers' = typingUsers
    /\ LET gone == SelectSeq(typingUsers, Expired)
       IN  emitted' = [i \in 1..Len(gone) |->
                         Ev("user_stopped_typing", gone[i][1], ToAll)]
    /\ call' = [op |-> "sweep", socket |-> "", data |-> NoData]
    /\ reply' = NoReply
    /\ UNCHANGED <<messages, connectedUsers, userStatus, readReceipts,
                   sockets, now, nsent>>
    /\ Delivered
    /\ FirestoreUnchanged

\* The setInterval callback (server.js:227-235): every expired entry is
\* deleted and announced, in the Map's iteration order.
Sweep ==
    /\ typingUsers' = SelectSeq(typingUsers, Fresh)
    /\ LET gone == SelectSeq(typingUsers, Expired)
       IN  emitted' = [i \in 1..Len(gone) |->
                         Ev("user_stopped_typing", gone[i][1], ToAll)]
    /\ call' = [op |-> "sweep", socket |-> "", data |-> NoData]
    /\ reply' = NoReply
    /\ UNCHANGED <<messages, connectedUsers, userStatus, readReceipts,
                   sockets, now, nsent>>
    /\ Delivered
    /\ FirestoreUnchanged

\* The time that passes while nothing is handled, around the typing timeout.
Waits == {TypingTimeout - 1, TypingTimeout, TypingTimeout + 1}
Wait(d) ==
    /\ now <= MaxNow
    /\ now' = now + d
    /\ call' = [op |-> "wait", socket |-> "", data |-> NoData]
    /\ emitted' = <<>>
    /\ reply' = NoReply
    /\ UNCHANGED <<messages, connectedUsers, userStatus, typingUsers,
                   readReceipts, sockets, nsent>>
    /\ Delivered
    /\ FirestoreUnchanged

\* The message store: send, edit, delete.
NextStore ==
    \/ \E s \in Sockets : Connect(s)
    \/ \E s \in Sockets, data \in SendData, r \in RandomFractions :
          SendMessage(s, data, r)
    \/ \E s \in Sockets, data \in EditData : EditMessage(s, data)
    \/ \E s \in Sockets, data \in DeleteData : DeleteMessage(s, data)

SpecStore == Init /\ [][NextStore]_vars

\* The store one message short of the 100 it keeps: FilledStore(n) is what n
\* send_message calls leave, lev sending "hi" once a millisecond up to the
\* millisecond before the clock's 0.
HistoryMessage(k, n) ==
    [ id |-> (k - n - 1) * IdScale,
      username |-> "lev",
      content |-> "hi",
      type |-> "text",
      attachment |-> NULL,
      timestamp |-> k - n - 1,
      edited |-> FALSE,
      editedAt |-> NoTime ]

\* n < MaxMessages pushes, none of which trims.
FilledStore(n) == [k \in 1..n |-> HistoryMessage(k, n)]

InitFull ==
    /\ messages = FilledStore(MaxMessages - 1)
    /\ connectedUsers = <<>>
    /\ userStatus = <<>>
    /\ typingUsers = <<>>
    /\ readReceipts = <<>>
    /\ sockets = {}
    /\ now = 0
    /\ nsent = 0
    /\ call = [op |-> "init", socket |-> "", data |-> NoData]
    /\ emitted = <<>>
    /\ reply = NoReply
    /\ socketRef = NoSocket
    /\ inbox = <<>>
    /\ chatRoom = ChatRoomInit
    /\ firestore = [d \in DocIds |-> NoDoc]
    /\ pending = [c \in Callers |-> Idle]
    /\ videoCall = VideoCallInit

\* The message store used through one connection.
NextFull ==
    \/ Connect("s1")
    \/ \E data \in SendData, r \in RandomFractions : SendMessage("s1", data, r)
    \/ \E data \in EditData : EditMessage("s1", data)
    \/ \E data \in DeleteData : DeleteMessage("s1", data)

SpecFull == InitFull /\ [][NextFull]_vars

\* Connections, presence, typing and sending.
NextChat ==
    \/ \E s \in Sockets : Connect(s)
    \/ \E s \in Sockets, u \in Names : Join(s, u)
    \/ \E s \in Sockets : Disconnect(s)
    \/ \E s \in Sockets, u \in Names : Typing(s, u)
    \/ \E s \in Sockets, data \in SendData, r \in RandomFractions :
          SendMessage(s, data, r)

SpecChat == Init /\ [][NextChat]_vars

\* The typing tracker and its timer.
NextTyping ==
    \/ Tick
    \/ \E d \in Waits : Wait(d)
    \/ \E s \in Sockets : Connect(s)
    \/ \E s \in Sockets, u \in Names : Typing(s, u)
    \/ \E s \in Sockets, u \in Names : StopTyping(s, u)
    \/ Sweep

SpecTyping == Init /\ [][NextTyping]_vars

(***************************************************************************)
(* Login: POST /api/login (server.js:57-77) and login() of                 *)
(* src/services/authService.ts, each with its own `users` object literal.  *)
(***************************************************************************)
\* const users = { 'lev': {...}, 'cin': {...} }
users ==
    [ lev |-> [username |-> "lev", password |-> "lev"],
      cin |-> [username |-> "cin", password |-> "cin"] ]

\* Properties every object literal inherits from Object.prototype: a lookup
\* users[k] of one of these yields a function (or the prototype object).
ObjectPrototype ==
    {"constructor", "__proto__", "toString", "valueOf", "hasOwnProperty"}

\* users[k] is truthy: an own entry or an inherited property.
UsersTruthy(k) == k \in DOMAIN users \/ k \in ObjectPrototype

\* users[k].password: the entry's password; undefined on an inherited
\* function or object, which has no such property.
UsersPassword(k) == IF k \in DOMAIN users THEN users[k].password ELSE UNDEF

\* users[username] && users[username].password === password
CredentialsMatch(username, password) ==
    /\ UsersTruthy(username)
    /\ UsersPassword(username) = password

\* req.body of a POST /api/login: any JSON object, so either field may be
\* missing (undefined).
LoginNames ==
    {"lev", "cin", "eve", "Lev", "", UNDEF, "constructor", "__proto__",
     "toString", "hasOwnProperty"}
LoginPasswords == {"lev", "cin", "Lev", "wrong", "", UNDEF}

\* app.post('/api/login')
PostLogin(username, password) ==
    /\ reply' = IF CredentialsMatch(username, password)
                THEN [status |-> 200, success |-> TRUE, username |-> username]
                ELSE [status |-> 401, success |-> FALSE,
                      message |-> "Invalid credentials"]
    /\ call' = [op |-> "POST /api/login", socket |-> "",
                data |-> [username |-> username, password |-> password]]
    /\ emitted' = <<>>
    /\ UNCHANGED <<messages, connectedUsers, userStatus, typingUsers,
                   readReceipts, sockets, now, nsent>>
    /\ Delivered
    /\ FirestoreUnchanged

\* authService.login(username: string, password: string): both arguments are
\* strings.
ClientLogin(username, password) ==
    /\ username # UNDEF
    /\ password # UNDEF
    /\ reply' = IF CredentialsMatch(username, password)
                THEN [success |-> TRUE, username |-> username]
                ELSE [success |-> FALSE,
                      message |-> "Invalid username or password"]
    /\ call' = [op |-> "login", socket |-> "",
                data |-> [username |-> username, password |-> password]]
    /\ emitted' = <<>>
    /\ UNCHANGED <<messages, connectedUsers, userStatus, typingUsers,
                   readReceipts, sockets, now, nsent>>
    /\ Delivered
    /\ FirestoreUnchanged

NextLogin ==
    \/ \E u \in LoginNames, p \in LoginPasswords : PostLogin(u, p)
    \/ \E u \in LoginNames, p \in LoginPasswords : ClientLogin(u, p)

SpecLogin == Init /\ [][NextLogin]_vars

\* The username of a join or typing event: an account's name, or the empty
\* string.
JoinNames == {"lev", ""}

\* Presence: joining, typing and leaving.
NextPresence ==
    \/ \E s \in Sockets : Connect(s)
    \/ \E s \in Sockets, u \in JoinNames : Join(s, u)
    \/ \E s \in Sockets, u \in JoinNames : Typing(s, u)
    \/ \E s \in Sockets : Disconnect(s)

SpecPresence == Init /\ [][NextPresence]_vars

\* lev has sent "hi" at the clock's 0 and has edited it to "yo" in the same
\* millisecond.
InitEdited ==
    /\ messages = << [ id |-> 0, username |-> "lev", content |-> "yo",
                       type |-> "text", attachment |-> NULL, timestamp |-> 0,
                       edited |-> TRUE, editedAt |-> 0 ] >>
    /\ connectedUsers = <<>>
    /\ userStatus = <<>>
    /\ typingUsers = <<>>
    /\ readReceipts = <<>>
    /\ sockets = {}
    /\ now = 0
    /\ nsent = 1
    /\ call = [op |-> "init", socket |-> "", data |-> NoData]
    /\ emitted = <<>>
    /\ reply = NoReply
    /\ socketRef = NoSocket
    /\ inbox = <<>>
    /\ chatRoom = ChatRoomInit
    /\ firestore = [d \in DocIds |-> NoDoc]
    /\ pending = [c \in Callers |-> Idle]
    /\ videoCall = VideoCallInit

\* Sending, editing and deleting on one connection while the clock runs.
NextEdit ==
    \/ Tick
    \/ Connect("s1")
    \/ \E data \in SendData, r \in RandomFractions : SendMessage("s1", data, r)
    \/ \E data \in EditData : EditMessage("s1", data)
    \/ \E data \in DeleteData : DeleteMessage("s1", data)

SpecEdit == InitEdited /\ [][NextEdit]_vars

(***************************************************************************)
(* Read receipts: mark_as_read of server.js and markMessageAsRead of       *)
(* src/services/chatService.ts.                                            *)
(***************************************************************************)
\* Array.prototype.includes
Includes(arr, x) == \E i \in 1..Len(arr) : arr[i] = x

\* The server's state outside the Firestore calls.
ServerUnchanged ==
    UNCHANGED <<messages, connectedUsers, userStatus, typingUsers,
                readReceipts, sockets, now, nsent, socketRef, inbox, chatRoom,
                videoCall>>

\* markMessageAsRead up to its first await: getDoc(messageRef) is under way,
\* and resolves with the document as it is now.
MarkMessageAsReadGet(c, messageId, username) ==
    /\ pending[c] = Idle
    /\ pending' = [pending EXCEPT ![c] =
                      [op |-> "markMessageAsRead", messageId |-> messageId,
                       username |-> username,
                       messageDoc |-> firestore[messageId]]]
    /\ UNCHANGED firestore
    /\ call' = [op |-> "markMessageAsRead:getDoc", socket |-> c,
                data |-> [messageId |-> messageId, username |-> username]]
    /\ emitted' = <<>>
    /\ reply' = NoReply
    /\ ServerUnchanged

\* markMessageAsRead from the resolution of getDoc to its end: when the
\* document existed and its readBy did not include the username, updateDoc
\* writes the readBy that was read with the username appended (and is
\* rejected, which the catch logs, when the document is gone by then).
MarkMessageAsReadUpdate(c) ==
    /\ pending[c] # Idle
    /\ pending[c].op = "markMessageAsRead"
    /\ LET messageId == pending[c].messageId
           username == pending[c].username
           messageDoc == pending[c].messageDoc
       IN  /\ IF /\ messageDoc.exists
                 /\ ~Includes(messageDoc.readBy, username)
                 /\ firestore[messageId].exists
              THEN firestore' = [firestore EXCEPT ![messageId].readBy =
                                    Append(messageDoc.readBy, username)]
              ELSE firestore' = firestore
           /\ call' = [op |-> "markMessageAsRead:updateDoc", socket |-> c,
                       data |-> [messageId |-> messageId,
                                 username |-> username,
                                 messageDoc |-> messageDoc]]
    /\ pending' = [pending EXCEPT ![c] = Idle]
    /\ emitted' = <<>>
    /\ reply' = NoReply
    /\ ServerUnchanged

\* lev has sent "hi" at the clock's 0 and has marked it as read, on the
\* socket server and, as document m1, in Firestore (sendMessage puts the
\* author in readBy).
InitMark ==
    /\ messages = << [ id |-> 0, username |-> "lev", content |-> "hi",
                       type |-> "text", attachment |-> NULL, timestamp |-> 0,
                       edited |-> FALSE, editedAt |-> NoTime ] >>
    /\ connectedUsers = <<>>
    /\ userStatus = <<>>
    /\ typingUsers = <<>>
    /\ readReceipts = << <<0, {"lev"}>> >>
    /\ sockets = {}
    /\ now = 0
    /\ nsent = 1
    /\ call = [op |-> "init", socket |-> "", data |-> NoData]
    /\ emitted = <<>>
    /\ reply = NoReply
    /\ socketRef = NoSocket
    /\ inbox = <<>>
    /\ chatRoom = ChatRoomInit
    /\ firestore = [d \in DocIds |->
                      IF d = "m1"
                      THEN [exists |-> TRUE, username |-> "lev",
                            content |-> "hi", type |-> "text",
                            edited |-> FALSE,
                            editedAt |-> NoTime, timestamp |-> 0,
                            readBy |-> <<"lev">>]
                      ELSE NoDoc]
    /\ pending = [c \in Callers |-> Idle]
    /\ videoCall = VideoCallInit

NextMark ==
    \/ \E s \in Sockets : Connect(s)
    \/ \E s \in Sockets, data \in ReadData : MarkAsRead(s, data)
    \/ \E s \in Sockets, data \in DeleteData : DeleteMessage(s, data)
    \/ \E c \in Callers, d \in DocIds, u \in Names :
          MarkMessageAsReadGet(c, d, u)
    \/ \E c \in Callers : MarkMessageAsReadUpdate(c)

SpecMark == InitMark /\ [][NextMark]_vars

(***************************************************************************)
(* Search: GET /api/search (server.js:100-112).                            *)
(***************************************************************************)
\* The characters of the strings that are searched and searched for.
Chars(str) ==
    CASE str = "" -> <<>>
      [] str = "Hi" -> <<"H", "i">>
      [] str = "yo" -> <<"y", "o">>
      [] str = "lev" -> <<"l", "e", "v">>
      [] str = "Cin" -> <<"C", "i", "n">>
      [] str = "h" -> <<"h">>
      [] str = "HI" -> <<"H", "I">>
      [] str = "c" -> <<"c">>
      [] str = "i" -> <<"i">>
      [] str = "ih" -> <<"i", "h">>
      [] str = "O" -> <<"O">>

\* String.prototype.toLowerCase, character by character.
LowerChar(c) ==
    CASE c = "H" -> "h"
      [] c = "I" -> "i"
      [] c = "C" -> "c"
      [] c = "O" -> "o"
      [] OTHER -> c

\* Mutant of ToLowerCase: the case is kept.
ToLowerCaseKeeps(cs) == cs

ToLowerCase(cs) == [i \in 1..Len(cs) |-> LowerChar(cs[i])]

\* String.prototype.includes: needle occurs in hay at some offset (the empty
\* needle at offset 0).
StringIncludes(hay, needle) ==
    \E k \in 0..(Len(hay) - Len(needle)) :
        SubSeq(hay, k + 1, k + Len(needle)) = needle

\* The filter of the search (server.js:106-109).
SearchMatches(message, query) ==
    \/ StringIncludes(ToLowerCase(Chars(message.content)),
                      ToLowerCase(Chars(query)))
    \/ StringIncludes(ToLowerCase(Chars(message.username)),
                      ToLowerCase(Chars(query)))

\* req.query.query: missing, empty, or a string.
Queries == {UNDEF, "", "h", "HI", "c", "i", "ih", "O"}

\* app.get('/api/search')
GetSearch(query) ==
    /\ reply' = IF Falsy(query)
                THEN [status |-> 200, body |-> <<>>]
                ELSE [status |-> 200,
                      body |-> SelectSeq(messages,
                                  LAMBDA message : SearchMatches(message, query))]
    /\ call' = [op |-> "GET /api/search", socket |-> "",
                data |-> [query |-> query]]
    /\ emitted' = <<>>
    /\ UNCHANGED <<messages, connectedUsers, userStatus, typingUsers,
                   readReceipts, sockets, now, nsent>>
    /\ Delivered
    /\ FirestoreUnchanged

\* The messages that are searched: lev's "Hi" and Cin's "yo".
SearchSendData ==
    { [username |-> "lev", content |-> "Hi", type |-> UNDEF,
       attachment |-> UNDEF],
      [username |-> "Cin", content |-> "yo", type |-> UNDEF,
       attachment |-> UNDEF] }

NextSearch ==
    \/ \E s \in Sockets : Connect(s)
    \/ \E s \in Sockets, data \in SearchSendData, r \in RandomFractions :
          SendMessage(s, data, r)
    \/ \E query \in Queries : GetSearch(query)

SpecSearch == Init /\ [][NextSearch]_vars

\* The messageId of a mark_as_read by a reader of the list: the oldest
\* stored message, which is the next to be evicted.
ReadIds == IF messages = <<>> THEN {AbsentId} ELSE {messages[1].id}
ReaderData == [messageId : ReadIds, username : Names]
\* lev's sends, edits and deletes.
AuthorSendData == {data \in SendData : data.username = "lev"}
AuthorEditData == {data \in EditData : /\ data.username = "lev"
                                       /\ data.newContent = "yo"}
AuthorDeleteData == {data \in DeleteData : data.username = "lev"}

\* Read receipts over the life of the messages they are about, the store
\* being one message short of full: cin joins, lev and cin mark the oldest
\* message, lev sends (which evicts), edits and deletes, and the connection
\* closes.
NextRead ==
    \/ Connect("s1")
    \/ Join("s1", "cin")
    \/ \E data \in AuthorSendData : SendMessage("s1", data, 0)
    \/ \E data \in AuthorEditData : EditMessage("s1", data)
    \/ \E data \in AuthorDeleteData : DeleteMessage("s1", data)
    \/ \E data \in ReaderData : MarkAsRead("s1", data)
    \/ Disconnect("s1")

SpecRead == InitFull /\ [][NextRead]_vars

(***************************************************************************)
(* The browser: the socket handlers of ChatRoom.tsx (lines 111-182).       *)
(***************************************************************************)
\* prev.filter(u => u !== user)
Without(list, user) == SelectSeq(list, LAMBDA u : u # user)

\* Mutant of OnChatHistory: the history is appended to the list.
OnChatHistoryAppends(cr, history) ==
    [cr EXCEPT !.messages = cr.messages \o history]

\* on('chat_history'): setMessages(history)
OnChatHistory(cr, history) == [cr EXCEPT !.messages = history]

\* on('new_message'): setMessages(prev => [...prev, message])
OnNewMessage(cr, message) ==
    [cr EXCEPT !.messages = Append(cr.messages, message)]

\* on('online_users'): the names of the entries whose status is online.
OnOnlineUsers(cr, entries) ==
    LET online == SelectSeq(entries, IsOnline)
    IN  [cr EXCEPT !.onlineUsers = [i \in 1..Len(online) |-> online[i][1]]]

\* on('user_status_update')
OnUserStatusUpdate(cr, update) ==
    IF update.status = "online"
    THEN [cr EXCEPT !.onlineUsers =
                       Append(Without(cr.onlineUsers, update.username),
                              update.username)]
    ELSE [cr EXCEPT !.onlineUsers = Without(cr.onlineUsers, update.username)]

\* on('user_typing')
OnUserTyping(cr, user) ==
    [cr EXCEPT !.typingUsers = Append(Without(cr.typingUsers, user), user)]

\* on('user_stopped_typing')
OnUserStoppedTyping(cr, user) ==
    [cr EXCEPT !.typingUsers = Without(cr.typingUsers, user)]

\* on('message_edited'): every message of the list with the id is rewritten.
OnMessageEdited(cr, edit) ==
    [cr EXCEPT !.messages =
        [i \in 1..Len(cr.messages) |->
            IF cr.messages[i].id = edit.messageId
            THEN [cr.messages[i] EXCEPT !.content = edit.newContent,
                                        !.edited = TRUE,
                                        !.editedAt = edit.editedAt]
            ELSE cr.messages[i]]]

\* on('message_deleted'): every message of the list with the id is dropped.
OnMessageDeleted(cr, messageId) ==
    [cr EXCEPT !.messages = SelectSeq(cr.messages,
                                      LAMBDA msg : msg.id # messageId)]

\* on('message_read')
OnMessageRead(cr, read) ==
    LET had == IF MapHas(cr.readReceipts, read.messageId)
               THEN MapGet(cr.readReceipts, read.messageId) ELSE {}
    IN  [cr EXCEPT !.readReceipts =
            MapSet(cr.readReceipts, read.messageId, had \cup {read.readBy})]

\* The handler registered for the event (none for user_joined and
\* user_left).
Handle(cr, e) ==
    CASE e.event = "chat_history" -> OnChatHistory(cr, e.payload)
      [] e.event = "new_message" -> OnNewMessage(cr, e.payload)
      [] e.event = "online_users" -> OnOnlineUsers(cr, e.payload)
      [] e.event = "user_status_update" -> OnUserStatusUpdate(cr, e.payload)
      [] e.event = "user_typing" -> OnUserTyping(cr, e.payload)
      [] e.event = "user_stopped_typing" -> OnUserStoppedTyping(cr, e.payload)
      [] e.event = "message_edited" -> OnMessageEdited(cr, e.payload)
      [] e.event = "message_deleted" -> OnMessageDeleted(cr, e.payload)
      [] e.event = "message_read" -> OnMessageRead(cr, e.payload)
      [] OTHER -> cr

\* What the browser's steps leave alone on the server.
BrowserOnly ==
    /\ emitted' = <<>>
    /\ reply' = NoReply
    /\ UNCHANGED videoCall
    /\ UNCHANGED <<messages, connectedUsers, userStatus, typingUsers,
                   readReceipts, now, nsent>>
    /\ FirestoreUnchanged

\* io() connects (and reconnects, each time as a new socket); the server's
\* connection handler runs and the browser's on('connect') sets isConnected.
\* The join it emits is handled by the server as a Join of this socket.
BrowserConnect(s) ==
    /\ socketRef = NoSocket
    /\ s \notin sockets
    /\ sockets' = sockets \cup {s}
    /\ socketRef' = s
    /\ inbox' = <<>>
    /\ chatRoom' = [chatRoom EXCEPT !.isConnected = TRUE]
    /\ call' = [op |-> "on", socket |-> s, data |-> [event |-> "connect"]]
    /\ BrowserOnly

\* The browser loses its connection: on('disconnect') clears isConnected,
\* and what was under way to it is lost.  The server runs its own disconnect
\* handler for the socket, before or after.
BrowserDisconnect ==
    /\ socketRef # NoSocket
    /\ socketRef' = NoSocket
    /\ inbox' = <<>>
    /\ chatRoom' = [chatRoom EXCEPT !.isConnected = FALSE]
    /\ call' = [op |-> "on", socket |-> socketRef,
                data |-> [event |-> "disconnect"]]
    /\ UNCHANGED sockets
    /\ BrowserOnly

\* The browser handles the event that was delivered first.
BrowserReceive ==
    /\ socketRef # NoSocket
    /\ inbox # <<>>
    /\ chatRoom' = Handle(chatRoom, Head(inbox))
    /\ inbox' = Tail(inbox)
    /\ call' = [op |-> "on", socket |-> socketRef,
                data |-> [event |-> Head(inbox).event]]
    /\ UNCHANGED <<socketRef, sockets>>
    /\ BrowserOnly

\* The server handles an event only while at most MaxInbox events wait in
\* the browser.
InboxHasRoom == Len(inbox) <= MaxInbox

\* cin's sends and deletes.
OtherSendData == {data \in SendData : data.username = "cin"}
OtherDeleteData == {data \in DeleteData : data.username = "cin"}

\* lev's browser connects as s1, joins, loses the connection and comes
\* back, while cin, on s2, joins, types, sends and deletes.
NextSync ==
    \/ BrowserConnect("s1")
    \/ BrowserDisconnect
    \/ BrowserReceive
    \/ InboxHasRoom /\ Join("s1", "lev")
    \/ Disconnect("s1")
    \/ Connect("s2")
    \/ InboxHasRoom /\ Join("s2", "cin")
    \/ InboxHasRoom /\ Typing("s2", "cin")
    \/ InboxHasRoom /\ \E data \in OtherSendData : SendMessage("s2", data, 0)
    \/ InboxHasRoom /\ \E data \in OtherDeleteData : DeleteMessage("s2", data)
    \/ InboxHasRoom /\ Disconnect("s2")

SpecSync == Init /\ [][NextSync]_vars

(***************************************************************************)
(* The typing timer as it runs: setInterval(..., 1000) (server.js:227-235).*)
(***************************************************************************)
\* server.js:235  the interval of the sweep, in milliseconds
SweepInterval == 1000

\* Time passes between two runs of the timer.  (The clock stops in the model
\* once every typing entry has expired: the next thing the timer does is the
\* sweep.)
Elapse ==
    /\ \E j \in 1..Len(typingUsers) : Fresh(typingUsers[j])
    /\ now' = now + SweepInterval
    /\ call' = [op |-> "wait", socket |-> "", data |-> NoData]
    /\ emitted' = <<>>
    /\ reply' = NoReply
    /\ UNCHANGED <<messages, connectedUsers, userStatus, typingUsers,
                   readReceipts, sockets, nsent>>
    /\ Delivered
    /\ FirestoreUnchanged

\* Typing events are handled up to the millisecond MaxNow; after that the
\* clients are silent and only the timer runs.
NextTimer ==
    \/ Tick
    \/ Elapse
    \/ \E s \in Sockets : Connect(s)
    \/ \E s \in Sockets, u \in Names : now <= MaxNow /\ Typing(s, u)
    \/ Sweep

\* The interval timer keeps firing whatever the clients do: time passes and
\* the callback runs.
SpecTimer ==
    /\ Init
    /\ [][NextTimer]_vars
    /\ WF_vars(Elapse)
    /\ WF_vars(Sweep)

\* lev's sends, edits and deletes on one connection while the clock runs,
\* the store being one message short of full.
NextOrder ==
    \/ Tick
    \/ Connect("s1")
    \/ \E data \in AuthorSendData, r \in RandomFractions :
          SendMessage("s1", data, r)
    \/ \E data \in AuthorEditData : EditMessage("s1", data)
    \/ \E data \in AuthorDeleteData : DeleteMessage("s1", data)

SpecOrder == InitFull /\ [][NextOrder]_vars

(***************************************************************************)
(* Editing and deleting in Firestore (chatService.ts:79-100).  Each call   *)
(* awaits one write, which Firestore applies in one step.                  *)
(***************************************************************************)
\* The user whose ChatRoom makes the caller's calls (its username prop).
CallerName(c) == IF c = "c1" THEN "lev" ELSE "cin"

\* The answer of a call whose write Firestore rejected (the call logs the
\* error and throws it again).
Thrown == [status |-> -1]

\* editMessage(messageId, newContent, username): updateDoc of content, edited
\* and editedAt; username is not used.  updateDoc of a document that does not
\* exist is rejected.
editMessage(c, messageId, newContent, username) ==
    /\ pending[c] = Idle
    /\ IF firestore[messageId].exists
       THEN /\ firestore' = [firestore EXCEPT
                                ![messageId].content = newContent,
                                ![messageId].edited = TRUE,
                                ![messageId].editedAt = now]
            /\ reply' = NoReply
       ELSE /\ firestore' = firestore
            /\ reply' = Thrown
    /\ call' = [op |-> "editMessage", socket |-> c,
                data |-> [messageId |-> messageId, newContent |-> newContent,
                          username |-> username]]
    /\ emitted' = <<>>
    /\ UNCHANGED pending
    /\ ServerUnchanged

\* deleteMessage(messageId): deleteDoc, whoever calls.
deleteMessage(c, messageId) ==
    /\ pending[c] = Idle
    /\ firestore' = [firestore EXCEPT ![messageId] = NoDoc]
    /\ call' = [op |-> "deleteMessage", socket |-> c,
                data |-> [messageId |-> messageId]]
    /\ emitted' = <<>>
    /\ reply' = NoReply
    /\ UNCHANGED pending
    /\ ServerUnchanged

\* The Firestore-backed service used by lev (c1) and cin (c2).
NextFirestore ==
    \/ \E c \in Callers, d \in DocIds, content \in Contents :
          editMessage(c, d, content, CallerName(c))
    \/ \E c \in Callers, d \in DocIds : deleteMessage(c, d)
    \/ \E c \in Callers, d \in DocIds : MarkMessageAsReadGet(c, d, CallerName(c))
    \/ \E c \in Callers : MarkMessageAsReadUpdate(c)

SpecFirestore == InitMark /\ [][NextFirestore]_vars

\* Authorship: one connection that joins, sends, edits and deletes.
NextAuthor ==
    \/ Connect("s1")
    \/ \E u \in Names : Join("s1", u)
    \/ \E data \in SendData, r \in RandomFractions : SendMessage("s1", data, r)
    \/ \E data \in EditData : EditMessage("s1", data)
    \/ \E data \in DeleteData : DeleteMessage("s1", data)

SpecAuthor == Init /\ [][NextAuthor]_vars

\* lev's browser connects as s1 and joins while the store is one message
\* short of full; lev then sends (which evicts), edits and deletes.
NextEvict ==
    \/ Tick
    \/ BrowserConnect("s1")
    \/ BrowserReceive
    \/ InboxHasRoom /\ Join("s1", "lev")
    \/ InboxHasRoom /\ \E data \in AuthorSendData : SendMessage("s1", data, 0)
    \/ InboxHasRoom /\ \E data \in AuthorEditData : EditMessage("s1", data)
    \/ InboxHasRoom /\ \E data \in AuthorDeleteData : DeleteMessage("s1", data)

SpecEvict == InitFull /\ [][NextEvict]_vars

(***************************************************************************)
(* The read-receipt observer of the socket client (ChatRoom.tsx:188-205).  *)
(***************************************************************************)
\* parseInt of the data-message-id attribute, which is the id written out
\* in decimal: the digits before the point.  Ids are in units of 1/IdScale
\* ms, so the whole milliseconds are kept and the fraction is dropped.
ParseInt(id) ==
    IF id >= 0 THEN (id \div IdScale) * IdScale
               ELSE 0 - (((0 - id) \div IdScale) * IdScale)

\* The i-th message of the list comes into view in the browser of username:
\* the observer emits mark_as_read with the parsed id, unless that is 0 or
\* there is no socket, and the server handles it.
Observe(i, username) ==
    /\ socketRef # NoSocket
    /\ i \in 1..Len(chatRoom.messages)
    /\ LET messageId == ParseInt(chatRoom.messages[i].id)
       IN  /\ messageId # 0
           /\ MarkAsRead(socketRef, [messageId |-> messageId,
                                     username |-> username])

\* cin's browser connects as s1 and joins; lev, on s2, sends; the messages
\* cin's browser shows come into view.
NextObserve ==
    \/ Tick
    \/ BrowserConnect("s1")
    \/ BrowserReceive
    \/ InboxHasRoom /\ Join("s1", "cin")
    \/ Connect("s2")
    \/ InboxHasRoom /\ \E data \in AuthorSendData, r \in RandomFractions :
                          SendMessage("s2", data, r)
    \/ InboxHasRoom /\ \E i \in 1..MaxSends : Observe(i, "cin")

SpecObserve == Init /\ [][NextObserve]_vars

\* The username App hands to ChatRoom: the account that logged in, or
\* whatever sessionStorage holds under 'chatUser', which App takes as it is.
SessionNames == {"lev", "cin", "eve"}

\* Concurrent markMessageAsRead calls of two ChatRooms.
NextRace ==
    \/ \E c \in Callers, d \in DocIds, u \in SessionNames :
          MarkMessageAsReadGet(c, d, u)
    \/ \E c \in Callers : MarkMessageAsReadUpdate(c)

SpecRace == InitMark /\ [][NextRace]_vars

(***************************************************************************)
(* Sending and subscribing in Firestore (chatService.ts:47-77), and the    *)
(* Firestore-backed ChatRoom's messages state (part_000:103-128), which    *)
(* chatRoom.messages stands for.                                           *)
(***************************************************************************)
\* limit(100) of the subscription's query.
QueryLimit == 100

\* The ids of the documents of the collection.
Existing(fs) == {d \in DOMAIN fs : fs[d].exists}

\* The ids of the first k documents by orderBy('timestamp', 'asc').
\* Firestore stamps a document with the time of its commit, and no two
\* commits share one, so the order is that of the timestamps.
FirstByTimestamp(fs, k) ==
    LET E == Existing(fs)
        T == {fs[d].timestamp : d \in E}
    IN  IF E = {}
        THEN <<>>
        ELSE LET lo == CHOOSE t \in T : \A u \in T : t <= u
                 hi == CHOOSE t \in T : \A u \in T : u <= t
                 inOrder == SelectSeq([i \in 1..(hi - lo + 1) |-> lo + i - 1],
                                      LAMBDA t : t \in T)
                 n == IF Len(inOrder) < k THEN Len(inOrder) ELSE k
             IN  [i \in 1..n |->
                     CHOOSE d \in E : fs[d].timestamp = inOrder[i]]

\* What onSnapshot hands to the callback: for each document of the query,
\* in its order, { id: doc.id, ...doc.data() }.
QueryMessages(fs) ==
    LET ids == FirstByTimestamp(fs, QueryLimit)
    IN  [i \in 1..Len(ids) |->
            [ id |-> ids[i],
              username |-> fs[ids[i]].username,
              content |-> fs[ids[i]].content,
              type |-> fs[ids[i]].type,
              timestamp |-> fs[ids[i]].timestamp,
              edited |-> fs[ids[i]].edited,
              editedAt |-> fs[ids[i]].editedAt,
              readBy |-> fs[ids[i]].readBy ]]

\* sendMessage(messageData): addDoc under an id the collection does not
\* have, stamped by the server, the author being the first reader.
sendMessage(c, messageData) ==
    /\ pending[c] = Idle
    /\ \A e \in Existing(firestore) : firestore[e].timestamp < now
    /\ \E d \in DOMAIN firestore :
          /\ ~firestore[d].exists
          /\ firestore' = [firestore EXCEPT ![d] =
                [ exists |-> TRUE,
                  username |-> messageData.username,
                  content |-> messageData.content,
                  type |-> messageData.type,
                  edited |-> messageData.edited,
                  editedAt |-> NoTime,
                  timestamp |-> now,
                  readBy |-> <<messageData.username>> ]]
    /\ call' = [op |-> "sendMessage", socket |-> c, data |-> messageData]
    /\ emitted' = <<>>
    /\ reply' = NoReply
    /\ UNCHANGED pending
    /\ ServerUnchanged

\* The listener of subscribeToMessages fires, the result of the query being
\* other than what it delivered last, and the ChatRoom's callback does
\* setMessages(newMessages).
OnSnapshot ==
    /\ chatRoom.messages # QueryMessages(firestore)
    /\ chatRoom' = [chatRoom EXCEPT !.messages = QueryMessages(firestore)]
    /\ call' = [op |-> "onSnapshot", socket |-> "", data |-> NoData]
    /\ emitted' = <<>>
    /\ reply' = NoReply
    /\ UNCHANGED <<messages, connectedUsers, userStatus, typingUsers,
                   readReceipts, sockets, now, nsent, socketRef, inbox,
                   videoCall>>
    /\ FirestoreUnchanged

\* The text messages the ChatRoom of a caller sends (part_000:170-175).
TextData(c) == [username : {CallerName(c)}, content : Contents,
                type : {"text"}, edited : {FALSE}]

\* The ids of a collection that holds one document less than the query's
\* limit and gets MaxSends more.
ArchiveIds == 1..(QueryLimit - 1 + MaxSends)

\* A document of the archive: the k-th of n, sent by lev before the clock's
\* 0.
ArchiveDoc(k, n) ==
    [ exists |-> TRUE, username |-> "lev", content |-> "hi",
      type |-> "text", edited |-> FALSE, editedAt |-> NoTime,
      timestamp |-> k - n - 1, readBy |-> <<"lev">> ]

InitArchive ==
    /\ messages = <<>>
    /\ connectedUsers = <<>>
    /\ userStatus = <<>>
    /\ typingUsers = <<>>
    /\ readReceipts = <<>>
    /\ sockets = {}
    /\ now = 0
    /\ nsent = 0
    /\ call = [op |-> "init", socket |-> "", data |-> NoData]
    /\ emitted = <<>>
    /\ reply = NoReply
    /\ socketRef = NoSocket
    /\ inbox = <<>>
    /\ chatRoom = ChatRoomInit
    /\ firestore = [d \in ArchiveIds |->
                      IF d < QueryLimit THEN ArchiveDoc(d, QueryLimit - 1)
                                        ELSE NoDoc]
    /\ pending = [c \in Callers |-> Idle]
    /\ videoCall = VideoCallInit

\* lev and cin send, and lev deletes the oldest message, while a ChatRoom
\* is subscribed.
NextArchive ==
    \/ Tick
    \/ \E c \in Callers : \E messageData \in TextData(c) :
          sendMessage(c, messageData)
    \/ deleteMessage("c1", 1)
    \/ OnSnapshot

SpecArchive == InitArchive /\ [][NextArchive]_vars

(***************************************************************************)
(* The steps of the VideoCallModal (part_000:713-784, 810-815).            *)
(***************************************************************************)
\* localStream.getTracks().forEach(track => track.stop()), under
\* if (localStream).
StopTracks(live, stream) == IF stream = NoStream THEN live ELSE live \ {stream}

\* What the steps of the modal leave alone.
ModalOnly ==
    /\ emitted' = <<>>
    /\ reply' = NoReply
    /\ UNCHANGED <<messages, connectedUsers, userStatus, typingUsers,
                   readReceipts, sockets, now, nsent, socketRef, inbox,
                   chatRoom>>
    /\ FirestoreUnchanged

\* The render that follows a change of isOpen: the cleanup of the effect
\* that ran last runs, with the localStream it closed over, and the effect
\* runs again, starting the local video when the modal is open; its cleanup
\* closes over the localStream of this render.
Rerendered(vc, isOpen) ==
    [vc EXCEPT !.isOpen = isOpen,
               !.live = StopTracks(vc.live, vc.captured),
               !.captured = vc.localStream,
               !.requested = IF isOpen THEN vc.requested + 1
                                       ELSE vc.requested]

\* handleStartCall of ChatRoom: setShowVideoCall(true).
StartCall ==
    /\ ~videoCall.isOpen
    /\ videoCall.requested + videoCall.granted < MaxCalls
    /\ videoCall' = Rerendered(videoCall, TRUE)
    /\ call' = [op |-> "handleStartCall", socket |-> "", data |-> NoData]
    /\ ModalOnly

\* startLocalVideo after its await: getUserMedia has resolved with a
\* stream, which becomes the localStream.  No dependency of the effect has
\* changed, so the effect does not run again.
MediaGranted ==
    /\ videoCall.requested > 0
    /\ LET stream == videoCall.granted + 1
       IN  videoCall' = [videoCall EXCEPT !.requested = @ - 1,
                                          !.granted = stream,
                                          !.live = @ \cup {stream},
                                          !.localStream = stream,
                                          !.callStatus = "connected"]
    /\ call' = [op |-> "startLocalVideo", socket |-> "",
                data |-> [granted |-> TRUE]]
    /\ ModalOnly

\* startLocalVideo after its await: getUserMedia was rejected; the catch
\* logs and alerts.
MediaDenied ==
    /\ videoCall.requested > 0
    /\ videoCall' = [videoCall EXCEPT !.requested = @ - 1]
    /\ call' = [op |-> "startLocalVideo", socket |-> "",
                data |-> [granted |-> FALSE]]
    /\ ModalOnly

\* The end-call button: endCall stops the tracks of the localStream of the
\* render it belongs to, sets the status and calls onClose.
EndCall ==
    /\ videoCall.isOpen
    /\ videoCall' =
          Rerendered([videoCall EXCEPT
                         !.live = StopTracks(@, videoCall.localStream),
                         !.callStatus = "ended"], FALSE)
    /\ call' = [op |-> "endCall", socket |-> "", data |-> NoData]
    /\ ModalOnly

\* The X button: onClose, which is setShowVideoCall(false).
CloseModal ==
    /\ videoCall.isOpen
    /\ videoCall' = Rerendered(videoCall, FALSE)
    /\ call' = [op |-> "onClose", socket |-> "", data |-> NoData]
    /\ ModalOnly

\* A user opens and closes the video call modal, while the clock runs and
\* a connection is made.
NextVideo ==
    \/ StartCall
    \/ MediaGranted
    \/ MediaDenied
    \/ EndCall
    \/ CloseModal
    \/ Tick
    \/ Connect("s1")

SpecVideo == Init /\ [][NextVideo]_vars

\* The whole server.
Next ==
    \/ Tick
    \/ \E d \in Waits : Wait(d)
    \/ \E s \in Sockets : Connect(s)
    \/ \E s \in Sockets, u \in Names : Join(s, u)
    \/ \E s \in Sockets, data \in SendData, r \in RandomFractions :
          SendMessage(s, data, r)
    \/ \E s \in Sockets, data \in EditData : EditMessage(s, data)
    \/ \E s \in Sockets, data \in DeleteData : DeleteMessage(s, data)
    \/ \E s \in Sockets, u \in Names : Typing(s, u)
    \/ \E s \in Sockets, u \in Names : StopTyping(s, u)
    \/ \E s \in Sockets, data \in ReadData : MarkAsRead(s, data)
    \/ \E s \in Sockets : Disconnect(s)
    \/ Sweep
    \/ \E u \in LoginNames, p \in LoginPasswords : PostLogin(u, p)
    \/ \E u \in LoginNames, p \in LoginPasswords : ClientLogin(u, p)
    \/ \E c \in Callers, d \in DocIds, u \in Names :
          MarkMessageAsReadGet(c, d, u)
    \/ \E c \in Callers : MarkMessageAsReadUpdate(c)
    \/ \E query \in Queries : GetSearch(query)
    \/ \E s \in Sockets : BrowserConnect(s)
    \/ BrowserDisconnect
    \/ BrowserReceive
    \/ Elapse
    \/ \E c \in Callers, d \in DocIds, content \in Contents, u \in Names :
          editMessage(c, d, content, u)
    \/ \E c \in Callers, d \in DocIds : deleteMessage(c, d)
    \/ \E i \in 1..MaxMessages, u \in Names : Observe(i, u)
    \/ \E c \in Callers : \E messageData \in TextData(c) :
          sendMessage(c, messageData)
    \/ OnSnapshot
    \/ StartCall
    \/ MediaGranted
    \/ MediaDenied
    \/ EndCall
    \/ CloseModal

Spec == Init /\ [][Next]_vars

(***************************************************************************)
(* The claims.                                                             *)
(***************************************************************************)
\* The events named `name` among a handler's emitted events.
EventsNamed(evs, name) == {i \in 1..Len(evs) : evs[i].event = name}

\* C1: the store never holds more than 100 messages, and a send_message
\* appends its message at the end, evicting the oldest message (the front of
\* the list) exactly when the store already held 100.
C1_CapAndOldestEvicted ==
    [][ /\ Len(messages) <= MaxMessages
        /\ Len(messages') <= MaxMessages
        /\ call'.op = "send_message" =>
             LET m == messages'[Len(messages')]
             IN  IF Len(messages) < MaxMessages
                 THEN messages' = Append(messages, m)
                 ELSE messages' = Append(Tail(messages), m) ]_vars

\* 101 sends in a row (99 before the clock's 0, two after): the store holds
\* 100 messages and the first one sent is gone.
C1_Witness ==
    /\ call.op = "send_message"
    /\ nsent = 2
    /\ Len(messages) = MaxMessages
    /\ messages[1] = HistoryMessage(2, MaxMessages - 1)
    /\ \A i \in 1..Len(messages) :
          messages[i] # HistoryMessage(1, MaxMessages - 1)

\* Some stored message has this id and this author.
AuthorOf(s, id, username) ==
    \E i \in 1..Len(s) : s[i].id = id /\ s[i].username = username

\* C2: an edit_message changes the store only when a stored message has the
\* id and the requester as its author; with an unknown, deleted or evicted
\* id, or a requester who is not the author, messages and read receipts are
\* the same before and after.
C2_EditOnlyByAuthor ==
    [][ call'.op = "edit_message" =>
          ( ~AuthorOf(messages, call'.data.messageId, call'.data.username)
              => /\ messages' = messages
                 /\ readReceipts' = readReceipts ) ]_vars

\* An edit of a stored message asked by someone who is not its author.
C2_Witness ==
    /\ call.op = "edit_message"
    /\ \E i \in 1..Len(messages) : messages[i].id = call.data.messageId
    /\ ~AuthorOf(messages, call.data.messageId, call.data.username)
    /\ \E i \in 1..Len(messages) : messages[i].content # call.data.newContent

\* C3: a delete_message removes exactly one entry, one with the id, when a
\* stored message has the id and the requester as its author, and leaves the
\* other entries as they are; otherwise it removes nothing.
C3_DeleteExactlyTheOne ==
    [][ call'.op = "delete_message" =>
          IF AuthorOf(messages, call'.data.messageId, call'.data.username)
          THEN \E i \in 1..Len(messages) :
                  /\ messages[i].id = call'.data.messageId
                  /\ messages' = Splice1(messages, i)
          ELSE messages' = messages ]_vars

\* The first stored message with this id is by someone else than `username`.
FirstIsAnothers(s, id, username) ==
    /\ FindIndex(s, id) # 0
    /\ s[FindIndex(s, id)].username # username

\* The first stored message with this id is by `username`.
FirstIsOwn(s, id, username) ==
    /\ FindIndex(s, id) # 0
    /\ s[FindIndex(s, id)].username = username

\* The caller of the handler is sent something: an event emitted to its
\* socket, or a reply.
CallerIsTold(evs, rep, s) ==
    \/ rep # NoReply
    \/ \E i \in 1..Len(evs) : s \in evs[i].to

\* C4 as claimed: when the requester of a delete_message is not the author of
\* a stored message with that id, the store is unchanged, no message_deleted
\* is broadcast and the caller is told of the refusal.
C4_RefusalReported ==
    [][ ( /\ call'.op = "delete_message"
          /\ \E i \in 1..Len(messages) :
                /\ messages[i].id = call'.data.messageId
                /\ messages[i].username # call'.data.username )
        => /\ messages' = messages
           /\ EventsNamed(emitted', "message_deleted") = {}
           /\ CallerIsTold(emitted', reply', call'.socket) ]_vars

\* C4, amended: when the requester of a delete_message is not the author of
\* the first stored message with that id, the store is unchanged, nothing is
\* emitted to anyone and nothing is reported to the caller: the refusal is
\* silent.
C4_RefusalSilent ==
    [][ ( /\ call'.op = "delete_message"
          /\ FirstIsAnothers(messages, call'.data.messageId,
                             call'.data.username) )
        => /\ messages' = messages
           /\ emitted' = <<>>
           /\ ~CallerIsTold(emitted', reply', call'.socket) ]_vars

\* cin has asked to delete a message of lev's and nothing happened.
C4_Witness ==
    /\ call.op = "delete_message"
    /\ call.data.username = "cin"
    /\ FirstIsAnothers(messages, call.data.messageId, "cin")
    /\ messages[FindIndex(messages, call.data.messageId)].username = "lev"
    /\ emitted = <<>>
    /\ Cardinality(sockets) = 2

\* C5 as claimed: message_edited (message_deleted) is broadcast to all
\* connections if and only if the edit (delete) changed the store, and an
\* edit or delete that leaves the store as it was emits nothing.
C5_BroadcastIffChanged ==
    [][ /\ call'.op = "edit_message" =>
             /\ (messages' # messages) <=>
                   (\E i \in 1..Len(emitted') :
                       /\ emitted'[i].event = "message_edited"
                       /\ emitted'[i].to = sockets)
             /\ (messages' = messages) => emitted' = <<>>
        /\ call'.op = "delete_message" =>
             /\ (messages' # messages) <=>
                   (\E i \in 1..Len(emitted') :
                       /\ emitted'[i].event = "message_deleted"
                       /\ emitted'[i].to = sockets)
             /\ (messages' = messages) => emitted' = <<>> ]_vars

\* C5, amended: message_deleted is broadcast to all connections if and only
\* if the delete changed the store; message_edited is broadcast to all
\* connections if and only if the edit was accepted (the first stored message
\* with the id is the requester's), also when the accepted edit writes the
\* values the message already has; a refused edit or delete emits nothing and
\* changes nothing, and every change of the store is broadcast.
C5_BroadcastIffAccepted ==
    [][ /\ call'.op = "edit_message" =>
             IF FirstIsOwn(messages, call'.data.messageId, call'.data.username)
             THEN /\ Len(emitted') = 1
                  /\ emitted'[1].event = "message_edited"
                  /\ emitted'[1].to = sockets
                  /\ emitted'[1].payload.messageId = call'.data.messageId
                  /\ emitted'[1].payload.newContent = call'.data.newContent
             ELSE /\ emitted' = <<>>
                  /\ messages' = messages
        /\ call'.op = "delete_message" =>
             IF messages' # messages
             THEN /\ Len(emitted') = 1
                  /\ emitted'[1].event = "message_deleted"
                  /\ emitted'[1].to = sockets
                  /\ emitted'[1].payload = call'.data.messageId
             ELSE emitted' = <<>> ]_vars

\* An accepted edit, broadcast to both of two connections.
C5_Witness ==
    /\ call.op = "edit_message"
    /\ Cardinality(sockets) = 2
    /\ Len(emitted) = 1
    /\ emitted[1].event = "message_edited"
    /\ emitted[1].to = sockets
    /\ FirstIsOwn(messages, call.data.messageId, call.data.username)

\* C6: a send_message from user u appends exactly one message, with
\* username u, the given content, type "text" when none is given and
\* edited = FALSE; u has no typing entry afterwards; exactly one new_message
\* event is emitted, carrying that message to every connection, the sender's
\* included, and exactly one user_stopped_typing event for u.
C6_SendAppendsAndAnnounces ==
    [][ call'.op = "send_message" =>
          LET d == call'.data
              m == messages'[Len(messages')]
              news == EventsNamed(emitted', "new_message")
              stops == EventsNamed(emitted', "user_stopped_typing")
          IN  /\ Len(messages) < MaxMessages => messages' = Append(messages, m)
              /\ m.username = d.username
              /\ m.content = d.content
              /\ m.type = (IF d.type = UNDEF THEN "text" ELSE d.type)
              /\ m.edited = FALSE
              /\ ~MapHas(typingUsers', d.username)
              /\ Cardinality(news) = 1
              /\ \A i \in news : /\ emitted'[i].payload = m
                                 /\ emitted'[i].to = sockets
                                 /\ call'.socket \in emitted'[i].to
              /\ Cardinality(stops) = 1
              /\ \A i \in stops : emitted'[i].payload = d.username ]_vars

\* lev has sent "hi" without a type, as the first message, with two
\* connections open and cin typing.
C6_Witness ==
    /\ call.op = "send_message"
    /\ call.data.username = "lev"
    /\ call.data.type = UNDEF
    /\ Len(messages) = 1
    /\ messages[1].content = "hi"
    /\ messages[1].type = "text"
    /\ Cardinality(sockets) = 2
    /\ MapHas(typingUsers, "cin")

\* The usernames whose presence is online.
OnlineNames(status) ==
    {k \in MapKeys(status) : MapGet(status, k) = "online"}

\* C7: on join, the joiner is sent the full message list (chat_history) and
\* the online roster (online_users); every other connection is sent a
\* user_status_update saying the new username is online, and neither the
\* chat_history nor the online_users event.
C7_JoinSnapshotToJoinerOnly ==
    [][ call'.op = "join" =>
          LET s == call'.socket
              u == call'.data.username
          IN  /\ \E i \in EventsNamed(emitted', "chat_history") :
                    /\ emitted'[i].payload = messages'
                    /\ s \in emitted'[i].to
              /\ \E i \in EventsNamed(emitted', "online_users") :
                    /\ {e[1] : e \in {emitted'[i].payload[j] :
                           j \in 1..Len(emitted'[i].payload)}}
                          = OnlineNames(userStatus')
                    /\ u \in OnlineNames(userStatus')
                    /\ s \in emitted'[i].to
              /\ \A t \in sockets \ {s} :
                    /\ \E i \in EventsNamed(emitted', "user_status_update") :
                          /\ emitted'[i].payload =
                                [username |-> u, status |-> "online"]
                          /\ t \in emitted'[i].to
                    /\ \A i \in EventsNamed(emitted', "chat_history")
                                  \cup EventsNamed(emitted', "online_users") :
                          t \notin emitted'[i].to ]_vars

\* A join while another connection is joined and the store holds a message.
C7_Witness ==
    /\ call.op = "join"
    /\ Len(messages) >= 1
    /\ \E t \in sockets \ {call.socket} : MapHas(connectedUsers, t)

\* The names of the events of `evs` delivered to socket s.
EventsTo(evs, s) == {evs[i].event : i \in {j \in 1..Len(evs) : s \in evs[j].to}}

C9_ExpiresAtTimeout ==
    [][ call'.op = "sweep" =>
          \A j \in 1..Len(typingUsers) :
             LET u == typingUsers[j][1]
                 T == typingUsers[j][2]
             IN  /\ now >= T + TypingTimeout => ~MapHas(typingUsers', u)
                 /\ now <= T + TypingTimeout - 1 =>
                       /\ MapHas(typingUsers', u)
                       /\ MapGet(typingUsers', u) = T ]_vars

\* C9, amended: a sweep at a time > T + 3000 ms (T + 3001 ms or later)
\* removes a typing entry set at T, and a sweep at T + 3000 ms or earlier
\* (so at T + 2999 ms too) leaves it.
C9_ExpiresAfterTimeout ==
    [][ call'.op = "sweep" =>
          \A j \in 1..Len(typingUsers) :
             LET u == typingUsers[j][1]
                 T == typingUsers[j][2]
             IN  /\ now > T + TypingTimeout => ~MapHas(typingUsers', u)
                 /\ now <= T + TypingTimeout =>
                       /\ MapHas(typingUsers', u)
                       /\ MapGet(typingUsers', u) = T ]_vars

\* A sweep has run exactly 3000 ms after lev's typing and left the entry,
\* and has removed that of cin, set a millisecond earlier.
C9_Witness ==
    /\ call.op = "sweep"
    /\ MapHas(typingUsers, "lev")
    /\ now = MapGet(typingUsers, "lev") + TypingTimeout
    /\ ~MapHas(typingUsers, "cin")
    /\ \E i \in 1..Len(emitted) :
          /\ emitted[i].event = "user_stopped_typing"
          /\ emitted[i].payload = "cin"

\* C10: a login, on the server or in the client, succeeds if and only if the
\* pair (username, password) is (lev, lev) or (cin, cin).
C10_OnlyTheTwoAccounts ==
    call.op \in {"POST /api/login", "login"} =>
        ( reply.success <=>
            <<call.data.username, call.data.password>>
               \in {<<"lev", "lev">>, <<"cin", "cin">>} )

\* The users recorded as having read message id (none without an entry).
ReadBy(receipts, id) == IF MapHas(receipts, id) THEN MapGet(receipts, id) ELSE {}

\* C11: marking a message as read a second time for the same user leaves
\* the readBy set that the first mark left: a mark_as_read leaves under the
\* id the users it had and the marking user, so one for a user already in the
\* set changes no read receipt; and a markMessageAsRead begun when the
\* document's readBy already includes the user writes nothing.
C11_MarkReadIdempotent ==
    [][ /\ call'.op = "mark_as_read" =>
             LET id == call'.data.messageId
                 u == call'.data.username
             IN  /\ ReadBy(readReceipts', id) = ReadBy(readReceipts, id) \cup {u}
                 /\ u \in ReadBy(readReceipts, id) =>
                       readReceipts' = readReceipts
        /\ call'.op = "markMessageAsRead:updateDoc" =>
             LET d == call'.data
             IN  ( /\ d.messageDoc.exists
                   /\ Includes(d.messageDoc.readBy, d.username) )
                 => firestore' = firestore ]_vars

\* lev, who had marked message 0 as read, has marked it again after cin
\* did, and the set is {lev, cin}.
C11_Witness ==
    /\ call.op = "mark_as_read"
    /\ call.data = [messageId |-> 0, username |-> "lev"]
    /\ ReadBy(readReceipts, 0) = {"lev", "cin"}

\* C12: a mark_as_read for an id that no stored message has (never sent,
\* deleted or evicted) creates and changes no read receipt.
C12_MarkAbsentIsNoOp ==
    [][ ( /\ call'.op = "mark_as_read"
          /\ \A i \in 1..Len(messages) : messages[i].id # call'.data.messageId )
        => readReceipts' = readReceipts ]_vars

\* The upper-case form of a character.
UpperChar(c) ==
    CASE c = "h" -> "H"
      [] c = "i" -> "I"
      [] c = "c" -> "C"
      [] c = "o" -> "O"
      [] c = "y" -> "Y"
      [] c = "l" -> "L"
      [] c = "e" -> "E"
      [] c = "v" -> "V"
      [] c = "n" -> "N"
      [] OTHER -> c

\* needle occurs in hay at some offset, letters compared without regard to
\* case.
ContainsIgnoringCase(hay, needle) ==
    \E k \in 0..(Len(hay) - Len(needle)) :
        \A j \in 1..Len(needle) : UpperChar(hay[k + j]) = UpperChar(needle[j])

\* The indices of the stored messages whose content or username contains
\* the query.
Hits(query) ==
    {i \in 1..Len(messages) :
        \/ ContainsIgnoringCase(Chars(messages[i].content), Chars(query))
        \/ ContainsIgnoringCase(Chars(messages[i].username), Chars(query))}

\* C13: a search answers with exactly the stored messages whose content or
\* username contains the query as a substring, case ignored, each once and
\* in the order of the store; a missing or empty query answers with the
\* empty list, not with the whole store.
C13_SearchExactMatchesInOrder ==
    call.op = "GET /api/search" =>
        LET query == call.data.query
            body == reply.body
        IN  IF query \in {UNDEF, ""}
            THEN body = <<>>
            ELSE \E f \in [1..Len(body) -> 1..Len(messages)] :
                    /\ \A a, b \in 1..Len(body) : a < b => f[a] < f[b]
                    /\ {f[a] : a \in 1..Len(body)} = Hits(query)
                    /\ \A a \in 1..Len(body) : body[a] = messages[f[a]]

\* A search for "HI" in a store holding Cin's "yo" and then lev's "Hi" has
\* answered with lev's message alone.
C13_Witness ==
    /\ call.op = "GET /api/search"
    /\ Len(messages) = 2
    /\ messages[1].username = "Cin"
    /\ messages[2].content = "Hi"
    /\ call.data.query = "HI"
    /\ reply.body = <<messages[2]>>

\* C14 as claimed: an accepted edit of a message that is already edited
\* leaves its editedAt as it was.
C14_EditedAtOnlyOnFirstEdit ==
    [][ call'.op = "edit_message" =>
          \A i \in 1..Len(messages) :
             messages[i].edited => messages'[i].editedAt = messages[i].editedAt
      ]_vars

\* C14, amended: every accepted edit sets the message's editedAt to the time
\* of that edit, also when the message was edited before (editedAt is the
\* time of the last edit); the other messages, and all of them on a refused
\* edit, keep their editedAt.
C14_EditedAtOnEveryEdit ==
    [][ call'.op = "edit_message" =>
          LET id == call'.data.messageId
              i == FindIndex(messages, id)
          IN  IF FirstIsOwn(messages, id, call'.data.username)
              THEN /\ Len(messages') = Len(messages)
                   /\ messages'[i].edited
                   /\ messages'[i].editedAt = now'
                   /\ \A j \in 1..Len(messages) :
                         j # i => messages'[j] = messages[j]
              ELSE messages' = messages ]_vars

\* lev's message 0, edited at the clock's 0, has been edited again one
\* millisecond later (nothing was sent meanwhile) and carries the later
\* time.
C14_Witness ==
    /\ call.op = "edit_message"
    /\ nsent = 1
    /\ call.data.messageId = 0
    /\ call.data.username = "lev"
    /\ now = 1
    /\ messages[1].id = 0
    /\ messages[1].edited
    /\ messages[1].editedAt = 1

\* Some event of evs is named `name`, carries `payload` and goes to `to`.
Broadcast(evs, name, payload, to) ==
    \E i \in 1..Len(evs) : /\ evs[i].event = name
                            /\ evs[i].payload = payload
                            /\ evs[i].to = to

\* C15: the disconnect of a connection that had joined as u removes the
\* connection's mapping, makes u's presence offline, removes u's typing
\* entry and broadcasts the presence, stopped-typing and left events for u
\* to the remaining connections; the disconnect of a connection that never
\* joined changes no state and emits nothing.
C15_DisconnectLeaves ==
    [][ call'.op = "disconnect" =>
          LET s == call'.socket
          IN  IF MapHas(connectedUsers, s)
              THEN LET u == MapGet(connectedUsers, s)
                   IN  /\ ~MapHas(connectedUsers', s)
                       /\ MapHas(userStatus', u)
                       /\ MapGet(userStatus', u) = "offline"
                       /\ ~MapHas(typingUsers', u)
                       /\ Broadcast(emitted', "user_status_update",
                                    [username |-> u, status |-> "offline"],
                                    sockets')
                       /\ Broadcast(emitted', "user_stopped_typing", u, sockets')
                       /\ Broadcast(emitted', "user_left", u, sockets')
              ELSE /\ UNCHANGED <<connectedUsers, userStatus, typingUsers,
                                  messages, readReceipts>>
                   /\ emitted' = <<>> ]_vars

\* C16: a typing (stop_typing) action emits one user_typing
\* (user_stopped_typing) event for the username, delivered to every
\* connection except the one that sent the action, which never receives it.
C16_TypingToAllButSender ==
    call.op \in {"typing", "stop_typing"} =>
        /\ Len(emitted) = 1
        /\ emitted[1].event = (IF call.op = "typing" THEN "user_typing"
                               ELSE "user_stopped_typing")
        /\ emitted[1].payload = call.data.username
        /\ call.socket \notin emitted[1].to
        /\ \A t \in sockets \ {call.socket} : t \in emitted[1].to
        /\ EventsTo(emitted, call.socket) = {}

\* A stop_typing sent on one of two connections has reached the other one
\* only.
C16_Witness ==
    /\ call.op = "stop_typing"
    /\ call.socket = "s1"
    /\ sockets = {"s1", "s2"}
    /\ emitted[1].to = {"s2"}

C18_IdsUnique ==
    \A i, j \in 1..Len(messages) :
        i # j => messages[i].id # messages[j].id

\* The elements of a list.
Elements(list) == {list[i] : i \in 1..Len(list)}

\* C19: when the browser has handled the online_users event of a join (the
\* last event of the join-time snapshot, after chat_history), its connection
\* is live and no further event is under way to it, its message list is the
\* server's store and its online-user list holds exactly the usernames whose
\* presence is online, whatever it missed while it was disconnected.
C19_SnapshotResynchronizes ==
    ( /\ call.op = "on"
      /\ call.data.event = "online_users"
      /\ socketRef \in sockets
      /\ inbox = <<>> )
    => /\ chatRoom.messages = messages
       /\ Elements(chatRoom.onlineUsers) = OnlineNames(userStatus)

\* The browser has handled the snapshot of a join after having missed
\* events (it still shows cin typing, whose stopped-typing event it never
\* got), and its list is the store, which holds a message, and its roster
\* is lev and cin.
C19_Witness ==
    /\ call.op = "on"
    /\ call.data.event = "online_users"
    /\ socketRef \in sockets
    /\ inbox = <<>>
    /\ Elements(chatRoom.typingUsers) = {"cin"}
    /\ ~MapHas(typingUsers, "cin")
    /\ Len(messages) >= 1
    /\ chatRoom.messages = messages
    /\ Elements(chatRoom.onlineUsers) = {"lev", "cin"}

\* C20: a stored message keeps its id, author and timestamp (and its type
\* and attachment): an edit_message changes at most the content, edited and
\* editedAt of the messages, in place, and after any other step every stored
\* message is one that was stored before, field for field, or the message
\* a send_message has just appended.
C20_IdentityFieldsImmutable ==
    [][ /\ call'.op = "edit_message" =>
             /\ Len(messages') = Len(messages)
             /\ \A i \in 1..Len(messages) :
                   messages'[i] =
                      [messages[i] EXCEPT !.content = messages'[i].content,
                                          !.edited = messages'[i].edited,
                                          !.editedAt = messages'[i].editedAt]
        /\ call'.op # "edit_message" =>
             \A j \in 1..Len(messages') :
                \/ \E i \in 1..Len(messages) : messages'[j] = messages[i]
                \/ /\ call'.op = "send_message"
                   /\ j = Len(messages') ]_vars

\* lev's message, sent at the clock's 0, has been edited one millisecond
\* later: new content, edited, editedAt 1, and still id 0, author lev and
\* timestamp 0.
C20_Witness ==
    /\ call.op = "edit_message"
    /\ call.data = [messageId |-> 0, username |-> "lev", newContent |-> "hi"]
    /\ nsent = 1
    /\ now = 1
    /\ messages = << [ id |-> 0, username |-> "lev", content |-> "hi",
                       type |-> "text", attachment |-> NULL, timestamp |-> 0,
                       edited |-> TRUE, editedAt |-> 1 ] >>

\* The sweep that has just run has removed u and has emitted exactly one
\* user_stopped_typing for u, to every connection.
SweptOnce(u) ==
    /\ call.op = "sweep"
    /\ ~MapHas(typingUsers, u)
    /\ Cardinality({i \in EventsNamed(emitted, "user_stopped_typing") :
                       emitted[i].payload = u}) = 1
    /\ \A i \in EventsNamed(emitted, "user_stopped_typing") :
          emitted[i].payload = u => emitted[i].to = sockets

\* C21: with the clients silent (no stop_typing, send or disconnect, and no
\* typing after a time), a recorded typing entry of u is eventually removed
\* by the timer's sweep, which emits user_stopped_typing for u to every
\* connection exactly once; a sweep emits one such event for each entry it
\* removes and none for a user it does not remove.
C21_SweepEventuallyExpires ==
    /\ \A u \in Names : MapHas(typingUsers, u) ~> SweptOnce(u)
    /\ [][ call'.op = "sweep" =>
             \A u \in Names :
                Cardinality({i \in 1..Len(emitted') : emitted'[i].payload = u})
                  = (IF MapHas(typingUsers, u) /\ ~MapHas(typingUsers', u)
                     THEN 1 ELSE 0) ]_vars

\* The timer has removed lev's typing entry, more than 3000 ms old, telling
\* both connections once, while cin's newer entry stays.
C21_Witness ==
    /\ SweptOnce("lev")
    /\ Cardinality(sockets) = 2
    /\ Len(emitted) = 1
    /\ MapHas(typingUsers, "cin")

\* The messages of s are in the order of their insertion times.
InInsertionOrder(s) ==
    \A i \in 1..(Len(s) - 1) : s[i].timestamp <= s[i + 1].timestamp

\* C22: the store is in insertion order (a message appended earlier comes
\* first); a send puts its message last and keeps the others in their order,
\* all of them or all but the evicted first; an edit leaves every message at
\* its position; a delete takes one message out and keeps the others in
\* their order.
C22_InsertionOrderKept ==
    [][ /\ InInsertionOrder(messages)
        /\ InInsertionOrder(messages')
        /\ call'.op = "send_message" =>
             LET kept == SubSeq(messages', 1, Len(messages') - 1)
             IN  /\ kept = messages \/ kept = Tail(messages)
                 /\ messages'[Len(messages')].timestamp = now'
        /\ call'.op = "edit_message" =>
             /\ Len(messages') = Len(messages)
             /\ \A i \in 1..Len(messages) :
                   /\ messages'[i].id = messages[i].id
                   /\ messages'[i].timestamp = messages[i].timestamp
                   /\ messages'[i].username = messages[i].username
        /\ call'.op = "delete_message" =>
             \/ messages' = messages
             \/ \E i \in 1..Len(messages) : messages' = Splice1(messages, i)
      ]_vars

\* In a full store whose first message was evicted, the message sent at the
\* clock's 0 has been edited and is still in front of the one sent a
\* millisecond later.
C22_Witness ==
    /\ call.op = "edit_message"
    /\ Len(messages) = MaxMessages
    /\ messages[1] = HistoryMessage(2, MaxMessages - 1)
    /\ messages[MaxMessages - 1].timestamp = 0
    /\ messages[MaxMessages - 1].edited
    /\ messages[MaxMessages].timestamp = 1
    /\ ~messages[MaxMessages].edited

\* C23: in the Firestore-backed service an editMessage changes a message
\* only when its username argument is the message's author, and a
\* deleteMessage removes a message only when the calling user is its author;
\* a request by any other user leaves the collection as it was.
C23_AuthorOnlyInFirestore ==
    [][ /\ ( /\ call'.op = "editMessage"
             /\ firestore[call'.data.messageId].exists
             /\ firestore[call'.data.messageId].username # call'.data.username )
           => firestore' = firestore
        /\ ( /\ call'.op = "deleteMessage"
             /\ firestore[call'.data.messageId].exists
             /\ firestore[call'.data.messageId].username
                   # CallerName(call'.socket) )
           => firestore' = firestore ]_vars

\* C24: in every reachable state of the socket server a username's presence
\* is online if and only if at least one live connection is registered to
\* that username.
C24_OnlineIffConnected ==
    \A u \in Names :
       (MapHas(userStatus, u) /\ MapGet(userStatus, u) = "online")
          <=> \E s \in sockets : /\ MapHas(connectedUsers, s)
                                 /\ MapGet(connectedUsers, s) = u

\* C25: authorship is bound to the connection: a send_message on a joined
\* connection stores a message carrying the username the connection joined
\* with, and an edit_message or delete_message on a joined connection changes
\* the store only if the target message's author is that username.
C25_AuthorshipBoundToConnection ==
    [][ MapHas(connectedUsers, call'.socket) =>
        LET joined == MapGet(connectedUsers, call'.socket)
        IN  /\ call'.op = "send_message" =>
                  messages'[Len(messages')].username = joined
            /\ (call'.op \in {"edit_message", "delete_message"}
                   /\ messages' # messages) =>
                  \E i \in 1..Len(messages) :
                     /\ messages[i].id = call'.data.messageId
                     /\ messages[i].username = joined ]_vars

\* The ids, contents and edited flags of a list of messages, in its order.
Shown(list) ==
    [i \in 1..Len(list) |-> [id |-> list[i].id, content |-> list[i].content,
                             edited |-> list[i].edited]]

\* C26: for a socket client that joined and is connected, once every event
\* emitted to it has been delivered and applied, the client's message list
\* is the server's store: same ids, same order, same contents and edited
\* flags.
C26_ClientListIsStore ==
    ( /\ socketRef \in sockets
      /\ MapHas(connectedUsers, socketRef)
      /\ inbox = <<>> )
    => Shown(chatRoom.messages) = Shown(messages)

\* C27: every mark_as_read the socket client emits for a displayed message
\* carries the id of a displayed message, as the server assigned it.
C27_MarkCarriesMessageId ==
    [][ call'.op = "mark_as_read" =>
           \E i \in 1..Len(chatRoom.messages) :
              chatRoom.messages[i].id = call'.data.messageId ]_vars

\* C28: in the Firestore-backed service, when a markMessageAsRead(id, u)
\* completes for an existing message u is in the message's readBy, and a
\* user who is in readBy stays there, whatever the interleaving of the
\* getDoc and updateDoc steps of concurrent calls; no user is in readBy
\* twice.
C28_ConcurrentMarksAllKept ==
    [][ /\ \A d \in DocIds :
             (firestore[d].exists /\ firestore'[d].exists) =>
                /\ \A i \in 1..Len(firestore[d].readBy) :
                      Includes(firestore'[d].readBy, firestore[d].readBy[i])
                /\ \A i, j \in 1..Len(firestore'[d].readBy) :
                      firestore'[d].readBy[i] = firestore'[d].readBy[j]
                         => i = j
        /\ ( /\ call'.op = "markMessageAsRead:updateDoc"
             /\ firestore'[call'.data.messageId].exists )
           => Includes(firestore'[call'.data.messageId].readBy,
                       call'.data.username) ]_vars

\* The ids of the at most QueryLimit most recent documents.
MostRecent(fs) ==
    {d \in Existing(fs) :
        Cardinality({e \in Existing(fs) :
                        fs[e].timestamp > fs[d].timestamp}) < QueryLimit}

\* C29: in the Firestore-backed service, once the subscriber has been
\* handed the result of its query as it now is, its view is the most recent
\* messages of the collection (at most 100), so every message a sendMessage
\* added is in it, however many messages the collection holds.
C29_ViewIsMostRecent ==
    chatRoom.messages = QueryMessages(firestore)
       => /\ {chatRoom.messages[i].id : i \in 1..Len(chatRoom.messages)}
                = MostRecent(firestore)
          /\ \A d \in Existing(firestore) :
                firestore[d].timestamp >= 0 =>
                   \E i \in 1..Len(chatRoom.messages) :
                      chatRoom.messages[i].id = d

\* C30: whenever the video call modal goes from open to closed, by the
\* end-call button or by onClose, every track of every local stream that
\* startLocalVideo obtained has been stopped, and no stream is live while
\* the modal is closed.
C30_NoLiveStreamOnceClosed ==
    [][ ~videoCall'.isOpen => videoCall'.live = {} ]_vars

====
